---- MODULE Spec2Model ----
(***************************************************************************)
(* Multimodal emotion fusion and the face-history tracker of the Nexaa     *)
(* ml-service (continuous_emotion_recognition.py,                          *)
(* advanced_face_emotion_model.py, nexamodel_v2.py,                        *)
(* face_priority_analysis.py).                                             *)
(*                                                                         *)
(* Confidences are exact rationals [n, d] (the code uses binary floats);   *)
(* time is counted in whole seconds.                                       *)
(***************************************************************************)
EXTENDS Integers, Sequences, FiniteSets, TLC

VARIABLES
    face_recognizer,        \* "advanced" when the advanced face model is loaded, else "none"
    _continuous_recognizer, \* the module's global instance: instances built, and the one it names
    cap,                    \* "none" | "opened" | "unopened": the cv2.VideoCapture handle
    face_tracking_active,   \* self.face_tracking_active
    face_thread,            \* "none" | "running": the capture loop thread
    stop_event,             \* whether the threading.Event of __init__ is set
    live,                   \* capture loop threads alive, and camera devices held open
    hist,                   \* the items of self.face_emotion_history, oldest first
    maxsize,                \* the maxsize of the queue object self.face_emotion_history names
    now,                    \* the clock, in seconds
    last_detection_time,    \* the capture loop's local last_detection_time
    scene,                  \* what the face estimator reads off the current frame
    nrec,                   \* estimates recorded so far (the next entry's identity)
    budget,                 \* changes of expression the environment has left
    loop,                   \* the capture loop thread inside an iteration (SpecConc)
    req,                    \* the request thread inside a read of the history (SpecConc)
    args,                   \* arguments of the last call
    ret,                    \* value returned by the last call
    op                      \* name of the last operation that ran

tracker == <<cap, face_tracking_active, face_thread, stop_event, live, hist, maxsize, now,
             last_detection_time, scene, nrec, budget>>
conc == <<loop, req>>
vars == <<face_recognizer, _continuous_recognizer, tracker, conc, args, ret, op>>

(***************************************************************************)
(* Exact rational arithmetic for confidences                               *)
(***************************************************************************)
RECURSIVE GCD(_, _)
GCD(a, b) == IF b = 0 THEN a ELSE GCD(b, a % b)

Q(n, d) == LET g == GCD(n, d) IN
           IF n = 0 THEN [n |-> 0, d |-> 1] ELSE [n |-> n \div g, d |-> d \div g]

QMul(a, b) == Q(a.n * b.n, a.d * b.d)
QAdd(a, b) == Q(a.n * b.d + b.n * a.d, a.d * b.d)
QGt(a, b)  == a.n * b.d > b.n * a.d
QGe(a, b)  == a.n * b.d >= b.n * a.d
QMax(a, b) == IF QGt(b, a) THEN b ELSE a
Pct(p)     == Q(p, 100)
Tenth(t)   == Q(t, 10)

(***************************************************************************)
(* Labels and estimates                                                    *)
(***************************************************************************)
emotion_labels == <<"happy", "sad", "angry", "fear", "surprise", "disgust", "neutral">>
Emotions == {emotion_labels[i] : i \in 1..Len(emotion_labels)}

\* Optional[EmotionResult] / Optional[Dict]: None is the record with emotion "none"
None == [emotion |-> "none"]
IsNone(x) == x.emotion = "none"

\* EmotionResult(emotion, confidence, ..., timestamp, modality)
EmotionResult(e, c, ts) == [emotion |-> e, confidence |-> c, timestamp |-> ts]

(***************************************************************************)
(* advanced_face_emotion_model.py: validate_emotion_authenticity           *)
(***************************************************************************)
\* the emotion x emotion table, in tenths (face row, text column)
emotion_compatibility ==
    [f \in Emotions |->
      CASE f = "happy"    -> [happy |-> 10, surprise |-> 7, neutral |-> 5, sad |-> 1, angry |-> 0, fear |-> 2, disgust |-> 1]
        [] f = "sad"      -> [sad |-> 10, neutral |-> 6, fear |-> 4, happy |-> 0, angry |-> 3, surprise |-> 2, disgust |-> 3]
        [] f = "angry"    -> [angry |-> 10, disgust |-> 6, sad |-> 4, neutral |-> 3, happy |-> 0, fear |-> 2, surprise |-> 1]
        [] f = "fear"     -> [fear |-> 10, surprise |-> 6, sad |-> 5, neutral |-> 4, angry |-> 2, happy |-> 1, disgust |-> 3]
        [] f = "surprise" -> [surprise |-> 10, happy |-> 6, fear |-> 5, neutral |-> 4, angry |-> 2, sad |-> 3, disgust |-> 2]
        [] f = "disgust"  -> [disgust |-> 10, angry |-> 6, sad |-> 4, fear |-> 3, neutral |-> 3, surprise |-> 2, happy |-> 1]
        [] f = "neutral"  -> [neutral |-> 10, happy |-> 4, sad |-> 4, surprise |-> 3, angry |-> 3, fear |-> 3, disgust |-> 3]]

\* a table whose "neutral" row lacks its own key, so that the lookup falls to 0.0
compatibility_missing_diagonal(face_emotion, text_emotion) ==
    IF face_emotion \in Emotions /\ text_emotion \in Emotions
       /\ ~(face_emotion = "neutral" /\ text_emotion = "neutral")
    THEN emotion_compatibility[face_emotion][text_emotion]
    ELSE 0

\* emotion_compatibility.get(face_emotion, {}).get(text_emotion, 0.0), in tenths
compatibility(face_emotion, text_emotion) ==
    IF face_emotion \in Emotions /\ text_emotion \in Emotions
    THEN emotion_compatibility[face_emotion][text_emotion]
    ELSE 0

face_weight == Q(8, 10)
text_weight == Q(2, 10)

\* an explanation string: the branch that fired and the emotions it names
Explain(tag, names) == [tag |-> tag, names |-> names]

\* the moderate tier starts at 0.3 instead of 0.4
compatibility_tier_low_threshold(c) ==
    IF c >= 7 THEN "high" ELSE IF c >= 3 THEN "moderate" ELSE "low"

\* the high tier starts at 0.6 instead of 0.7
compatibility_tier_high_from_06(c) ==
    IF c >= 6 THEN "high" ELSE IF c >= 4 THEN "moderate" ELSE "low"

\* the branch taken on a compatibility c (in tenths): >= 0.7, >= 0.4, else
compatibility_tier(c) ==
    IF c >= 7 THEN "high" ELSE IF c >= 4 THEN "moderate" ELSE "low"

\* the conflict branch lets the stronger signal win, as the moderate branch does
validate_emotion_authenticity_stronger_wins(face_emotion, face_confidence, text_emotion, text_confidence) ==
    LET c == compatibility(face_emotion, text_emotion)
        tier == compatibility_tier(c)
        stronger == IF QGt(face_confidence, text_confidence) THEN face_emotion ELSE text_emotion
    IN
    IF tier = "high" THEN
        [final_emotion       |-> face_emotion,
         final_confidence    |-> QAdd(QMul(face_confidence, face_weight),
                                      QMul(QMul(text_confidence, text_weight), Tenth(c))),
         is_authentic        |-> TRUE,
         compatibility_score |-> c,
         explanation         |-> Explain("compatible", {face_emotion, text_emotion})]
    ELSE IF tier = "moderate" THEN
        [final_emotion       |-> stronger,
         final_confidence    |-> QMul(QMax(face_confidence, text_confidence), Q(8, 10)),
         is_authentic        |-> TRUE,
         compatibility_score |-> c,
         explanation         |-> Explain("moderate", {face_emotion, text_emotion})]
    ELSE
        [final_emotion       |-> stronger,
         final_confidence    |-> QMul(face_confidence, Q(7, 10)),
         is_authentic        |-> FALSE,
         compatibility_score |-> c,
         explanation         |-> Explain("potential_fake", {face_emotion, text_emotion})]

validate_emotion_authenticity(face_emotion, face_confidence, text_emotion, text_confidence) ==
    LET c == compatibility(face_emotion, text_emotion)
        tier == compatibility_tier(c)
    IN
    IF tier = "high" THEN
        [final_emotion       |-> face_emotion,
         final_confidence    |-> QAdd(QMul(face_confidence, face_weight),
                                      QMul(QMul(text_confidence, text_weight), Tenth(c))),
         is_authentic        |-> TRUE,
         compatibility_score |-> c,
         explanation         |-> Explain("compatible", {face_emotion, text_emotion})]
    ELSE IF tier = "moderate" THEN
        [final_emotion       |-> IF QGt(face_confidence, text_confidence)
                                 THEN face_emotion ELSE text_emotion,
         final_confidence    |-> QMul(QMax(face_confidence, text_confidence), Q(8, 10)),
         is_authentic        |-> TRUE,
         compatibility_score |-> c,
         explanation         |-> Explain("moderate", {face_emotion, text_emotion})]
    ELSE
        [final_emotion       |-> face_emotion,
         final_confidence    |-> QMul(face_confidence, Q(7, 10)),
         is_authentic        |-> FALSE,
         compatibility_score |-> c,
         explanation         |-> Explain("potential_fake", {face_emotion, text_emotion})]

(***************************************************************************)
(* continuous_emotion_recognition.py: the fusion engine                    *)
(***************************************************************************)
positive_emotions == {"happy", "surprise"}
negative_emotions == {"sad", "angry", "fear", "disgust"}

valence(e) == IF e \in positive_emotions THEN "positive"
              ELSE IF e \in negative_emotions THEN "negative" ELSE "neutral"

\* _calculate_consistency_score, in tenths (the two confidences are not read)
calculate_consistency_score(face_emotion, text_emotion, face_confidence, text_confidence) ==
    IF face_emotion = text_emotion THEN 10
    ELSE IF valence(face_emotion) = valence(text_emotion) /\ valence(face_emotion) # "neutral" THEN 7
    ELSE IF "neutral" \in {valence(face_emotion), valence(text_emotion)} THEN 5
    ELSE 2

\* self.consistency_threshold, in tenths
consistency_threshold == 6

\* _determine_final_emotion; advanced = the advanced face recognizer is loaded
determine_final_emotion(face_emotion, text_emotion, face_consensus, consistency_score, advanced) ==
    LET face_result_emotion == IF IsNone(face_consensus) THEN face_emotion.emotion
                               ELSE face_consensus.emotion
        face_conf == IF IsNone(face_consensus) THEN face_emotion.confidence
                     ELSE QMul(face_consensus.confidence, face_consensus.stability_score)
        text_conf == text_emotion.confidence
        v == validate_emotion_authenticity(face_result_emotion, face_conf,
                                           text_emotion.emotion, text_conf)
    IN
    IF advanced THEN
        [final_emotion |-> v.final_emotion, final_confidence |-> v.final_confidence,
         is_authentic |-> v.is_authentic, explanation |-> v.explanation]
    ELSE IF consistency_score >= consistency_threshold THEN
        IF face_result_emotion = text_emotion.emotion THEN
            [final_emotion    |-> face_result_emotion,
             final_confidence |-> QAdd(QMul(face_conf, Q(8, 10)), QMul(text_conf, Q(2, 10))),
             is_authentic     |-> TRUE,
             explanation      |-> Explain("authentic", {face_result_emotion})]
        ELSE
            [final_emotion    |-> face_result_emotion,
             final_confidence |-> QAdd(QMul(face_conf, Q(8, 10)),
                                       QMul(QMul(text_conf, Q(2, 10)), Q(7, 10))),
             is_authentic     |-> TRUE,
             explanation      |-> Explain("compatible", {face_result_emotion, text_emotion.emotion})]
    ELSE
        [final_emotion    |-> face_result_emotion,
         final_confidence |-> QMul(face_conf, Q(8, 10)),
         is_authentic     |-> FALSE,
         explanation      |-> Explain("potential_fake", {face_result_emotion, text_emotion.emotion})]

\* MultimodalResult
MultimodalResult(fe, fc, f, t, cs, auth, expl) ==
    [final_emotion |-> fe, final_confidence |-> fc, face_emotion |-> f, text_emotion |-> t,
     consistency_score |-> cs, is_authentic |-> auth, explanation |-> expl]

\* the no-input default with the confidence the keyword fallback gives a neutral text
no_data_result_as_fallback_text ==
    MultimodalResult("neutral", Q(6, 10), None, None, 0, FALSE, Explain("no_data", {}))

\* "if not face_emotion and not text_emotion: return MultimodalResult(...)"
no_data_result ==
    MultimodalResult("neutral", Q(5, 10), None, None, 0, FALSE, Explain("no_data", {}))

\* the face-only bar with ">=" for ">"
face_only_is_authentic_inclusive(face_emotion) == QGe(face_emotion.confidence, Q(6, 10))

\* "is_authentic=face_emotion.confidence > 0.6"
face_only_is_authentic(face_emotion) == QGt(face_emotion.confidence, Q(6, 10))

\* the text-only bar without the neutral test
text_only_is_authentic_any_emotion(text_emotion) == QGt(text_emotion.confidence, Q(7, 10))

\* "is_authentic = text_emotion.confidence > 0.7 and text_emotion.emotion != 'neutral'"
text_only_is_authentic(text_emotion) ==
    QGt(text_emotion.confidence, Q(7, 10)) /\ text_emotion.emotion # "neutral"

\* _combine_and_validate_emotions; face_consensus is what get_face_emotion_consensus()
\* returns when the face+text case asks for it
combine_and_validate_emotions(face_emotion, text_emotion, face_consensus, advanced) ==
    IF IsNone(face_emotion) /\ IsNone(text_emotion) THEN
        no_data_result
    ELSE IF IsNone(text_emotion) THEN
        MultimodalResult(face_emotion.emotion, face_emotion.confidence, face_emotion, None, 10,
                         face_only_is_authentic(face_emotion),
                         Explain("face_only", {face_emotion.emotion}))
    ELSE IF IsNone(face_emotion) THEN
        MultimodalResult(text_emotion.emotion, QMul(text_emotion.confidence, Q(8, 10)),
                         None, text_emotion, 5,
                         text_only_is_authentic(text_emotion),
                         Explain("text_only", {text_emotion.emotion}))
    ELSE
        LET cs == IF IsNone(face_consensus)
                  THEN calculate_consistency_score(face_emotion.emotion, text_emotion.emotion,
                                                   face_emotion.confidence, text_emotion.confidence)
                  ELSE calculate_consistency_score(face_consensus.emotion, text_emotion.emotion,
                                                   face_consensus.confidence, text_emotion.confidence)
            d == determine_final_emotion(face_emotion, text_emotion, face_consensus, cs, advanced)
        IN MultimodalResult(d.final_emotion, d.final_confidence, face_emotion, text_emotion,
                            cs, d.is_authentic, d.explanation)

(***************************************************************************)
(* Bounds of the exploration                                               *)
(***************************************************************************)
\* records the capture loop is followed for, and the last second of the clock
MaxRecords == 11
MaxTime == 19
\* the changes of expression the camera is shown
MaxSceneChanges == 1
\* the reads of the history followed step by step
MaxRequests == 2
\* the recognizer instances get_continuous_recognizer is followed building
MaxInstances == 2

(***************************************************************************)
(* continuous_emotion_recognition.py: the face history and its readers     *)
(***************************************************************************)
\* queue.Queue(maxsize=10)
max_history == 10
\* timedelta(seconds=10) in get_face_emotion_consensus
window_seconds == 10
\* self.face_detection_interval
face_detection_interval == 1

\* a history entry: an EmotionResult, with the identity of the object
Entry(e, c, ts, id) == [emotion |-> e, confidence |-> c, timestamp |-> ts, id |-> id]

\* queue.Queue.full(): 0 < maxsize <= qsize
full(items, size) == 0 < size /\ size <= Len(items)

\* the capture loop without its eviction branch
record_without_eviction(items, size, x) == Append(items, x)

\* "if not full: put(x) else: get_nowait(); put(x)" of the capture loop
record(items, size, x) ==
    IF ~full(items, size) THEN Append(items, x) ELSE Append(Tail(items), x)

\* "for emotion in face_emotions: if not full: put(emotion)" of get_recent_face_emotion
RECURSIVE put_back(_, _, _)
put_back(items, size, face_emotions) ==
    IF face_emotions = <<>> THEN items
    ELSE put_back(IF ~full(items, size) THEN Append(items, Head(face_emotions)) ELSE items,
                  size, Tail(face_emotions))

\* max(face_emotions, key=lambda x: x.timestamp): the first entry of greatest timestamp
RECURSIVE max_by_timestamp_from(_, _)
max_by_timestamp_from(best, face_emotions) ==
    IF face_emotions = <<>> THEN best
    ELSE max_by_timestamp_from(IF Head(face_emotions).timestamp > best.timestamp
                               THEN Head(face_emotions) ELSE best,
                               Tail(face_emotions))

\* the first entry drained, the oldest one
first_drained(face_emotions) == Head(face_emotions)

max_by_timestamp(face_emotions) ==
    max_by_timestamp_from(Head(face_emotions), Tail(face_emotions))

\* the drained entries put back last one first
recent_put_back_reversed(items, size) ==
    IF items = <<>> THEN items
    ELSE put_back(<<>>, size, [i \in 1..Len(items) |-> items[Len(items) + 1 - i]])

\* get_recent_face_emotion: the value returned, and the queue it leaves
recent_face_emotion(items) == IF items = <<>> THEN None ELSE max_by_timestamp(items)
recent_put_back(items, size) == IF items = <<>> THEN items ELSE put_back(<<>>, size, items)

\* the filter with ">=" for ">": an entry exactly window_seconds old passes
recent_emotions_inclusive(items, clock) ==
    SelectSeq(items, LAMBDA e : e.timestamp >= clock - window_seconds)

\* [e for e in face_emotions if e.timestamp > cutoff_time]
recent_emotions(items, clock) ==
    SelectSeq(items, LAMBDA e : e.timestamp > clock - window_seconds)

\* "if emotion not in emotion_counts: emotion_counts[emotion] = []" and the append:
\* the dict as the sequence of its items, in insertion order
add_confidence(emotion_counts, e, c) ==
    IF \E i \in DOMAIN emotion_counts : emotion_counts[i].emotion = e
    THEN [i \in DOMAIN emotion_counts |->
            IF emotion_counts[i].emotion = e
            THEN [emotion |-> e, confidences |-> Append(emotion_counts[i].confidences, c)]
            ELSE emotion_counts[i]]
    ELSE Append(emotion_counts, [emotion |-> e, confidences |-> <<c>>])

RECURSIVE count_emotions(_, _)
count_emotions(emotion_counts, items) ==
    IF items = <<>> THEN emotion_counts
    ELSE count_emotions(add_confidence(emotion_counts, Head(items).emotion,
                                       Head(items).confidence),
                        Tail(items))

\* max(emotion_counts.keys(), key=lambda x: len(emotion_counts[x])): the first key,
\* in the dict's order, of greatest count
RECURSIVE dominant_from(_, _)
dominant_from(best, emotion_counts) ==
    IF emotion_counts = <<>> THEN best
    ELSE dominant_from(IF Len(Head(emotion_counts).confidences) > Len(best.confidences)
                       THEN Head(emotion_counts) ELSE best,
                       Tail(emotion_counts))

\* the first key of the dict, whatever the counts
dominant_emotion_first_key(emotion_counts) == Head(emotion_counts)

dominant_emotion(emotion_counts) == dominant_from(Head(emotion_counts), Tail(emotion_counts))

RECURSIVE sum_of(_)
sum_of(confidences) ==
    IF confidences = <<>> THEN Q(0, 1) ELSE QAdd(Head(confidences), sum_of(Tail(confidences)))

\* the first confidence appended, for the mean
first_confidence(confidences) == Head(confidences)

\* np.mean
mean(confidences) == QMul(sum_of(confidences), Q(1, Len(confidences)))

\* get_face_emotion_consensus: the value returned
face_emotion_consensus(items, clock) ==
    LET recent == recent_emotions(items, clock) IN
    IF items = <<>> \/ recent = <<>> THEN None
    ELSE LET emotion_counts == count_emotions(<<>>, recent)
             consensus == dominant_emotion(emotion_counts)
         IN [emotion              |-> consensus.emotion,
             confidence           |-> mean(consensus.confidences),
             stability_score      |-> Q(Len(consensus.confidences), Len(recent)),
             sample_count         |-> Len(recent),
             emotion_distribution |-> {<<emotion_counts[i].emotion,
                                         Len(emotion_counts[i].confidences)>> :
                                       i \in DOMAIN emotion_counts}]

\* the capture loop between two iterations; the request thread between two calls
LoopIdle == [pc |-> "idle", item |-> None, orphaned |-> FALSE]
ReqIdle == [pc |-> "idle", call |-> "none", face_emotions |-> <<>>, temp_queue |-> <<>>,
            rest |-> <<>>, left |-> 0]

\* the global after main.py's startup has called get_continuous_recognizer()
recognizer_at_startup == [built |-> 1, current |-> 1]

InitTracker ==
    /\ _continuous_recognizer = recognizer_at_startup
    /\ cap = "none"
    /\ face_tracking_active = FALSE
    /\ face_thread = "none"
    /\ stop_event = FALSE
    /\ live = [threads |-> 0, handles |-> 0]
    /\ hist = <<>>
    /\ maxsize = max_history
    /\ now = 1
    /\ last_detection_time = 0
    /\ scene = [emotion |-> "happy", confidence |-> Pct(80)]
    /\ nrec = 0
    /\ budget = MaxSceneChanges
    /\ loop = LoopIdle
    /\ req = [ReqIdle EXCEPT !.left = MaxRequests]

(***************************************************************************)
(* Spec: the recognizer's operations, each run to completion               *)
(***************************************************************************)
\* the faces the camera is shown
Scenes == {[emotion |-> "happy", confidence |-> Pct(80)],
           [emotion |-> "happy", confidence |-> Pct(60)],
           [emotion |-> "sad", confidence |-> Pct(90)]}

\* the text recognizer raising on the text it is given
TextRaises == [emotion |-> "raises"]

\* what the text recognizer makes of the text sent: None when no text (or a blank one)
\* is sent, an estimate, or an exception
TextInputs == {None, EmotionResult("sad", Pct(80), 0), TextRaises}

\* analyze_text_emotion: the recognizer's estimate, and a neutral one when it raises
analyze_text_emotion(prediction) ==
    IF prediction = TextRaises THEN EmotionResult("neutral", Q(5, 10), 0) ELSE prediction

NoArgs == [kind |-> "none"]
NoRet == [kind |-> "none"]
Bool(b) == [kind |-> "bool", value |-> b]

\* start_face_tracking() without "if self.face_tracking_active: return True"
StartFaceTracking_without_active_check(camera) ==
    /\ op' = "start_face_tracking"
    /\ args' = NoArgs
    /\ cap' = "opened"
    /\ stop_event' = FALSE
    /\ face_thread' = "running"
    /\ live' = [threads |-> live.threads + 1, handles |-> live.handles + 1]
    /\ last_detection_time' = 0
    /\ face_tracking_active' = TRUE
    /\ ret' = Bool(TRUE)
    /\ UNCHANGED <<hist, maxsize, now, scene, nrec, budget>>
    /\ UNCHANGED <<face_recognizer, _continuous_recognizer, conc>>

\* start_face_tracking(); camera is what cv2.VideoCapture(0) does. Rebinding self.cap
\* drops the handle it named, which no device was open on
StartFaceTracking(camera) ==
    /\ op' = "start_face_tracking"
    /\ args' = NoArgs
    /\ IF face_tracking_active THEN
           /\ ret' = Bool(TRUE)
           /\ UNCHANGED tracker
       ELSE IF camera = "raises" THEN
           /\ ret' = Bool(FALSE)
           /\ UNCHANGED tracker
       ELSE IF camera = "unopened" THEN
           /\ cap' = "unopened"
           /\ ret' = Bool(FALSE)
           /\ UNCHANGED <<face_tracking_active, face_thread, stop_event, live, hist, maxsize, now,
                          last_detection_time, scene, nrec, budget>>
       ELSE
           /\ cap' = "opened"
           /\ stop_event' = FALSE
           /\ face_thread' = "running"
           /\ live' = [threads |-> live.threads + 1, handles |-> live.handles + 1]
           /\ last_detection_time' = 0
           /\ face_tracking_active' = TRUE
           /\ ret' = Bool(TRUE)
           /\ UNCHANGED <<hist, maxsize, now, scene, nrec, budget>>
    /\ UNCHANGED <<face_recognizer, _continuous_recognizer, conc>>

\* what the attribute stop_face_tracking of a recognizer instance is bound to: __init__
\* stores a threading.Event under the name of the method, and the instance attribute
\* is found before the class's method
stop_face_tracking_attribute == "Event"

\* recognizer.stop_face_tracking(): a call of the Event object, which is not callable;
\* the method's body, for an instance on which the name still reached the method
StopFaceTracking ==
    /\ op' = "stop_face_tracking"
    /\ args' = NoArgs
    /\ IF stop_face_tracking_attribute = "Event" THEN
           /\ ret' = [kind |-> "raise", error |-> "TypeError"]
           /\ UNCHANGED tracker
       ELSE IF ~face_tracking_active THEN
           /\ ret' = NoRet
           /\ UNCHANGED tracker
       ELSE
           /\ stop_event' = TRUE
           /\ face_thread' = "none"
           /\ cap' = "none"
           /\ live' = [threads |-> 0, handles |-> 0]
           /\ face_tracking_active' = FALSE
           /\ ret' = NoRet
           /\ UNCHANGED <<hist, maxsize, now, last_detection_time, scene, nrec, budget>>
    /\ UNCHANGED <<face_recognizer, _continuous_recognizer, conc>>

\* the clock when the loop's next detection is due
next_detection(clock, last) ==
    IF clock - last >= face_detection_interval THEN clock ELSE last + face_detection_interval

\* one iteration of _face_tracking_loop that reads a frame and detects a face: the
\* loop sleeps until the interval has passed, then records what the camera shows
Record(s) ==
    /\ face_thread = "running"
    /\ nrec < MaxRecords
    /\ s # scene => budget > 0
    /\ LET t == next_detection(now, last_detection_time) IN
       /\ now' = t
       /\ last_detection_time' = t
       /\ hist' = record(hist, maxsize, Entry(s.emotion, s.confidence, t, nrec + 1))
    /\ scene' = s
    /\ budget' = IF s # scene THEN budget - 1 ELSE budget
    /\ nrec' = nrec + 1
    /\ op' = "record" /\ args' = NoArgs /\ ret' = NoRet
    /\ UNCHANGED <<conc, face_recognizer, _continuous_recognizer, cap, face_tracking_active, face_thread, stop_event, live, maxsize>>

\* the camera yields no frame for the length of the recency window
Pause ==
    /\ face_thread = "running"
    /\ hist # <<>>
    /\ now + window_seconds <= MaxTime
    /\ now' = now + window_seconds
    /\ op' = "pause" /\ args' = NoArgs /\ ret' = NoRet
    /\ UNCHANGED <<conc, face_recognizer, _continuous_recognizer, cap, face_tracking_active, face_thread, stop_event, live, hist, maxsize,
                   last_detection_time, scene, nrec, budget>>

\* get_recent_face_emotion()
GetRecentFaceEmotion ==
    /\ ret' = recent_face_emotion(hist)
    /\ hist' = recent_put_back(hist, maxsize)
    /\ op' = "get_recent_face_emotion" /\ args' = NoArgs
    /\ UNCHANGED <<conc, face_recognizer, _continuous_recognizer, cap, face_tracking_active, face_thread, stop_event, live, maxsize, now,
                   last_detection_time, scene, nrec, budget>>

\* "temp_queue = queue.Queue() ... temp_queue.put(emotion)": the drained items, in order
move_all(src, dst) == dst \o [i \in 1..Len(src) |-> src[i]]

\* the maxsize of queue.Queue()
temp_queue_maxsize == 0

\* get_face_emotion_consensus()
GetFaceEmotionConsensus ==
    /\ ret' = face_emotion_consensus(hist, now)
    /\ hist' = move_all(hist, <<>>)
    /\ maxsize' = temp_queue_maxsize
    /\ op' = "get_face_emotion_consensus" /\ args' = NoArgs
    /\ UNCHANGED <<conc, face_recognizer, _continuous_recognizer, cap, face_tracking_active, face_thread, stop_event, live, now,
                   last_detection_time, scene, nrec, budget>>

\* get_status(): reads self.base_recognizer, which no code sets
GetStatus ==
    /\ IF face_tracking_active
       THEN hist' = move_all(hist, <<>>) /\ maxsize' = temp_queue_maxsize
       ELSE UNCHANGED <<hist, maxsize>>
    /\ ret' = [kind |-> "raise", error |-> "AttributeError"]
    /\ op' = "get_status" /\ args' = NoArgs
    /\ UNCHANGED <<conc, face_recognizer, _continuous_recognizer, cap, face_tracking_active, face_thread, stop_event, live, now,
                   last_detection_time, scene, nrec, budget>>

\* analyze_multimodal_emotion(text, force_face_capture); text is what the text
\* recognizer makes of the text sent
AnalyzeMultimodalEmotion(text, force_face_capture) ==
    \E recent \in {IF face_tracking_active THEN recent_face_emotion(hist) ELSE None} :
    \E after_recent \in {IF face_tracking_active THEN recent_put_back(hist, maxsize) ELSE hist} :
    \E face_emotion \in {IF face_tracking_active /\ IsNone(recent) /\ force_face_capture
                           /\ cap = "opened"
                        THEN EmotionResult(scene.emotion, scene.confidence, now)
                        ELSE recent} :
    \E text_emotion \in {IF IsNone(text) THEN None ELSE analyze_text_emotion(text)} :
    \E both \in {~IsNone(face_emotion) /\ ~IsNone(text_emotion)} :
    \E face_consensus \in {IF both THEN face_emotion_consensus(after_recent, now) ELSE None} :
    /\ ret' = combine_and_validate_emotions(face_emotion, text_emotion, face_consensus,
                                            face_recognizer = "advanced")
    /\ hist' = IF both THEN move_all(after_recent, <<>>) ELSE after_recent
    /\ maxsize' = IF both THEN temp_queue_maxsize ELSE maxsize
    /\ op' = "analyze_multimodal_emotion"
    /\ args' = [text |-> text_emotion, raised |-> (text = TextRaises),
                force_face_capture |-> force_face_capture]
    /\ UNCHANGED <<conc, face_recognizer, _continuous_recognizer, cap, face_tracking_active, face_thread, stop_event, live, now,
                   last_detection_time, scene, nrec, budget>>

\* a request to /analyze/authentic-emotion
Analyze ==
    \E text \in TextInputs, force \in BOOLEAN :
        \* force_face_capture is read only when no face is on record
        /\ force => hist = <<>>
        /\ AnalyzeMultimodalEmotion(text, force)

Init ==
    /\ InitTracker
    /\ face_recognizer \in {"advanced", "none"}
    /\ args = NoArgs
    /\ ret = NoRet
    /\ op = "init"

Next ==
    \/ \E camera \in {"opened", "unopened", "raises"} : StartFaceTracking(camera)
    \/ StopFaceTracking
    \/ \E s \in Scenes : Record(s)
    \/ Pause
    \/ GetRecentFaceEmotion
    \/ GetFaceEmotionConsensus
    \/ GetStatus
    \/ Analyze

Spec == Init /\ [][Next]_vars

(***************************************************************************)
(* SpecConc: the capture loop thread and one request thread, interleaved   *)
(* at the granularity of the queue's own (atomic) methods                  *)
(***************************************************************************)
\* _face_tracking_loop: a frame is read and a face detected
LoopDetect ==
    /\ loop.pc = "idle"
    /\ face_thread = "running"
    /\ ~stop_event
    /\ nrec < MaxRecords
    /\ LET t == next_detection(now, last_detection_time) IN
       /\ now' = t
       /\ loop' = [loop EXCEPT !.pc = "check_full",
                               !.item = Entry(scene.emotion, scene.confidence, t, nrec + 1)]
    /\ nrec' = nrec + 1
    /\ UNCHANGED <<face_recognizer, _continuous_recognizer, cap, face_tracking_active, face_thread, stop_event, live, hist, maxsize,
                   last_detection_time, scene, budget, req, args, ret, op>>

\* "while not self.stop_face_tracking.is_set()" finds the event set: the loop thread ends
LoopExit ==
    /\ loop.pc = "idle"
    /\ stop_event
    /\ loop' = [loop EXCEPT !.pc = "exited"]
    /\ live' = [live EXCEPT !.threads = @ - 1]
    /\ UNCHANGED <<face_recognizer, _continuous_recognizer, cap, face_tracking_active, face_thread, stop_event, hist,
                   maxsize, now, last_detection_time, scene, nrec, budget, req, args, ret, op>>

\* "self.stop_face_tracking.set()": the Event's set(), on the attribute of the instance
StopEventSet ==
    /\ ~stop_event
    /\ stop_event' = TRUE
    /\ UNCHANGED <<face_recognizer, _continuous_recognizer, cap, face_tracking_active, face_thread, live, hist,
                   maxsize, now, last_detection_time, scene, nrec, budget, conc, args, ret, op>>

\* "if not self.face_emotion_history.full():"
LoopCheckFull ==
    /\ loop.pc = "check_full"
    /\ loop' = [loop EXCEPT !.pc = IF full(hist, maxsize) THEN "evict" ELSE "put"]
    /\ UNCHANGED <<face_recognizer, _continuous_recognizer, tracker, req, args, ret, op>>

\* "try: get_nowait() except queue.Empty: pass"
LoopEvict ==
    /\ loop.pc = "evict"
    /\ hist' = IF hist = <<>> THEN hist ELSE Tail(hist)
    /\ loop' = [loop EXCEPT !.pc = "put"]
    /\ UNCHANGED <<face_recognizer, _continuous_recognizer, cap, face_tracking_active, face_thread, stop_event, live, maxsize, now,
                   last_detection_time, scene, nrec, budget, req, args, ret, op>>

\* "self.face_emotion_history.put(face_result)": put() returns, or waits inside the
\* queue object for a free slot
LoopPut ==
    /\ loop.pc = "put"
    /\ IF full(hist, maxsize)
       THEN /\ loop' = [loop EXCEPT !.pc = "put_wait"]
            /\ UNCHANGED <<hist, last_detection_time>>
       ELSE /\ hist' = Append(hist, loop.item)
            /\ last_detection_time' = loop.item.timestamp
            /\ loop' = LoopIdle
    /\ UNCHANGED <<face_recognizer, _continuous_recognizer, cap, face_tracking_active, face_thread, stop_event, live, maxsize, now,
                   scene, nrec, budget, req, args, ret, op>>

\* the waiting put() gets its slot, in the queue object it was called on: the item
\* is gone when self.face_emotion_history has been rebound meanwhile
LoopPutWake ==
    /\ loop.pc = "put_wait"
    /\ loop.orphaned \/ ~full(hist, maxsize)
    /\ hist' = IF loop.orphaned THEN hist ELSE Append(hist, loop.item)
    /\ last_detection_time' = loop.item.timestamp
    /\ loop' = LoopIdle
    /\ UNCHANGED <<face_recognizer, _continuous_recognizer, cap, face_tracking_active, face_thread, stop_event, live, maxsize, now,
                   scene, nrec, budget, req, args, ret, op>>

ReadCalls == {"get_recent_face_emotion", "get_face_emotion_consensus"}

\* the request thread enters get_recent_face_emotion or get_face_emotion_consensus
ReqCall(call) ==
    /\ req.pc = "idle"
    /\ req.left > 0
    /\ IF call = "get_recent_face_emotion" /\ hist = <<>>
       THEN /\ req' = [ReqIdle EXCEPT !.left = req.left - 1]
            /\ ret' = None /\ op' = call /\ args' = NoArgs
       ELSE /\ req' = [ReqIdle EXCEPT !.pc = "drain", !.call = call, !.left = req.left - 1]
            /\ UNCHANGED <<args, ret, op>>
    /\ UNCHANGED <<face_recognizer, _continuous_recognizer, tracker, loop>>

\* the phase after the drain loop
after_drain(call) == IF call = "get_recent_face_emotion" THEN "put_back" ELSE "swap"

\* "while not self.face_emotion_history.empty():"
ReqDrainCheck ==
    /\ req.pc = "drain"
    /\ req' = IF hist = <<>>
              THEN [req EXCEPT !.pc = after_drain(req.call), !.rest = req.face_emotions]
              ELSE [req EXCEPT !.pc = "get"]
    /\ UNCHANGED <<face_recognizer, _continuous_recognizer, tracker, loop, args, ret, op>>

\* "emotion = get_nowait(); face_emotions.append(emotion)" (and temp_queue.put), or
\* queue.Empty and break
ReqDrainGet ==
    /\ req.pc = "get"
    /\ IF hist = <<>>
       THEN /\ req' = [req EXCEPT !.pc = after_drain(req.call), !.rest = req.face_emotions]
            /\ UNCHANGED hist
       ELSE /\ req' = [req EXCEPT !.pc = "drain",
                                  !.face_emotions = Append(@, Head(hist)),
                                  !.temp_queue = IF req.call = "get_face_emotion_consensus"
                                                 THEN Append(@, Head(hist)) ELSE @]
            /\ hist' = Tail(hist)
    /\ UNCHANGED <<face_recognizer, _continuous_recognizer, cap, face_tracking_active, face_thread, stop_event, live, maxsize, now,
                   last_detection_time, scene, nrec, budget, loop, args, ret, op>>

\* "for emotion in face_emotions: if not self.face_emotion_history.full():", and the
\* return of get_recent_face_emotion after the last one
ReqPutBackCheck ==
    /\ req.pc = "put_back"
    /\ IF req.rest = <<>>
       THEN /\ req' = [ReqIdle EXCEPT !.left = req.left]
            /\ ret' = IF req.face_emotions = <<>> THEN None
                      ELSE max_by_timestamp(req.face_emotions)
            /\ op' = req.call /\ args' = NoArgs
       ELSE /\ req' = IF full(hist, maxsize) THEN [req EXCEPT !.rest = Tail(@)]
                      ELSE [req EXCEPT !.pc = "put"]
            /\ UNCHANGED <<args, ret, op>>
    /\ UNCHANGED <<face_recognizer, _continuous_recognizer, tracker, loop>>

\* "self.face_emotion_history.put(emotion)": waits while the queue is full
ReqPut ==
    /\ req.pc = "put"
    /\ ~full(hist, maxsize)
    /\ hist' = Append(hist, Head(req.rest))
    /\ req' = [req EXCEPT !.pc = "put_back", !.rest = Tail(@)]
    /\ UNCHANGED <<face_recognizer, _continuous_recognizer, cap, face_tracking_active, face_thread, stop_event, live, maxsize, now,
                   last_detection_time, scene, nrec, budget, loop, args, ret, op>>

\* "self.face_emotion_history = temp_queue" and the rest of get_face_emotion_consensus,
\* which works on the local list
ReqSwap ==
    /\ req.pc = "swap"
    /\ hist' = req.temp_queue
    /\ maxsize' = temp_queue_maxsize
    /\ loop' = [loop EXCEPT !.orphaned = (loop.pc = "put_wait")]
    /\ ret' = face_emotion_consensus(req.face_emotions, now)
    /\ op' = req.call /\ args' = NoArgs
    /\ req' = [ReqIdle EXCEPT !.left = req.left]
    /\ UNCHANGED <<face_recognizer, _continuous_recognizer, cap, face_tracking_active, face_thread, stop_event, live, now,
                   last_detection_time, scene, nrec, budget>>

\* entries the loop has recorded, one per detection interval, before the first request
\* arrives: the state after start_face_tracking() and that many iterations
recorded_before == max_history - 2

InitConc ==
    /\ _continuous_recognizer = recognizer_at_startup
    /\ cap = "opened"
    /\ face_tracking_active = TRUE
    /\ face_thread = "running"
    /\ stop_event = FALSE
    /\ live = [threads |-> 1, handles |-> 1]
    /\ scene = [emotion |-> "happy", confidence |-> Pct(80)]
    /\ hist = [i \in 1..recorded_before |-> Entry(scene.emotion, scene.confidence, i, i)]
    /\ maxsize = max_history
    /\ now = recorded_before
    /\ last_detection_time = recorded_before
    /\ nrec = recorded_before
    /\ budget = MaxSceneChanges
    /\ loop = LoopIdle
    /\ req = [ReqIdle EXCEPT !.left = MaxRequests]
    /\ face_recognizer = "advanced"
    /\ args = NoArgs
    /\ ret = NoRet
    /\ op = "record"

NextConc ==
    \/ LoopDetect
    \/ LoopExit
    \/ StopEventSet
    \/ LoopCheckFull
    \/ LoopEvict
    \/ LoopPut
    \/ LoopPutWake
    \/ \E call \in ReadCalls : ReqCall(call)
    \/ ReqDrainCheck
    \/ ReqDrainGet
    \/ ReqPutBackCheck
    \/ ReqPut
    \/ ReqSwap

SpecConc == InitConc /\ [][NextConc]_vars

(***************************************************************************)
(* SpecFusion: the fusion functions applied to enumerated estimates        *)
(***************************************************************************)
\* confidences, in hundredths, the estimators are let to report
ConfLevels == {0, 60, 70, 80, 90, 100}

Estimates == {EmotionResult(e, Pct(c), 0) : e \in Emotions, c \in ConfLevels}

\* what get_face_emotion_consensus() may hand to the face+text case
ConsensusInputs ==
    {[emotion |-> e, confidence |-> Pct(80), stability_score |-> s] :
        e \in Emotions, s \in {Q(1, 2), Q(1, 1)}}

FusionArgs ==
    {a \in [face : Estimates \cup {None}, text : Estimates \cup {None},
            consensus : ConsensusInputs \cup {None}] :
        ~IsNone(a.consensus) => (~IsNone(a.face) /\ ~IsNone(a.text))}

InitFusion ==
    /\ InitTracker
    /\ face_recognizer \in {"advanced", "none"}
    /\ args \in FusionArgs
    /\ ret = NoRet
    /\ op = "init"

\* recognizer.validate_emotion_authenticity(face_emotion, face_conf, text_emotion, text_conf)
CallValidate ==
    /\ ~IsNone(args.face) /\ ~IsNone(args.text) /\ IsNone(args.consensus)
    /\ ret' = validate_emotion_authenticity(args.face.emotion, args.face.confidence,
                                            args.text.emotion, args.text.confidence)
    /\ op' = "validate"
    /\ UNCHANGED <<face_recognizer, _continuous_recognizer, tracker, conc, args>>

\* self._combine_and_validate_emotions(face_emotion, text_emotion)
CallCombine ==
    /\ ret' = combine_and_validate_emotions(args.face, args.text, args.consensus,
                                             face_recognizer = "advanced")
    /\ op' = "combine"
    /\ UNCHANGED <<face_recognizer, _continuous_recognizer, tracker, conc, args>>

NextFusion == CallValidate \/ CallCombine

SpecFusion == InitFusion /\ [][NextFusion]_vars

\* the face estimate a face+text fusion works on: the consensus when there is one
FaceUsed(a) ==
    IF IsNone(a.consensus) THEN [emotion |-> a.face.emotion, confidence |-> a.face.confidence]
    ELSE [emotion |-> a.consensus.emotion,
          confidence |-> QMul(a.consensus.confidence, a.consensus.stability_score)]

BothPresent(a) == ~IsNone(a.face) /\ ~IsNone(a.text)

\* the compatibility the policy in force gives the pair, in tenths
PolicyScore(a) ==
    IF face_recognizer = "advanced" \/ op = "validate"
    THEN compatibility(FaceUsed(a).emotion, a.text.emotion)
    ELSE calculate_consistency_score(FaceUsed(a).emotion, a.text.emotion,
                                     FaceUsed(a).confidence, a.text.confidence)

FusedPair == op \in {"validate", "combine"} /\ BothPresent(args)

(***************************************************************************)
(* Claims on the fusion functions (SpecFusion)                             *)
(***************************************************************************)
\* C1 (face dominance): in a face+text fusion whose pair scores below 0.4, in the
\* compatibility table or in the score of the policy in force, the final emotion is
\* the face emotion, whatever the two confidences are.
C1_FaceDominance ==
    (FusedPair /\ (PolicyScore(args) < 4
                   \/ compatibility(FaceUsed(args).emotion, args.text.emotion) < 4))
        => ret.final_emotion = FaceUsed(args).emotion

\* a conflict in which the text is the more confident signal, resolved for the face
C1_Witness ==
    /\ op = "validate"
    /\ args.face = EmotionResult("happy", Pct(60), 0)
    /\ args.text = EmotionResult("sad", Pct(90), 0)
    /\ ret.final_emotion = "happy"

\* C2 (clear conflict): a face+text fusion whose pair scores below 0.4 is not
\* authentic, and its explanation flags a potential fake naming both emotions.
C2_ClearConflict ==
    (FusedPair /\ PolicyScore(args) < 4)
        => /\ ret.is_authentic = FALSE
           /\ ret.explanation.tag = "potential_fake"
           /\ ret.explanation.names = {FaceUsed(args).emotion, args.text.emotion}

\* the two conflicts of test_advanced_face_recognition, flagged
C2_Witness ==
    /\ op = "validate"
    /\ \/ args.face = EmotionResult("happy", Pct(90), 0) /\ args.text = EmotionResult("sad", Pct(80), 0)
       \/ args.face = EmotionResult("angry", Pct(90), 0) /\ args.text = EmotionResult("happy", Pct(80), 0)
    /\ ret.is_authentic = FALSE
    /\ ret.explanation.tag = "potential_fake"

\* the score a fusion result reports for its pair, in tenths
ReportedScore == IF op = "validate" THEN ret.compatibility_score ELSE ret.consistency_score

\* C3 (exact match): when face and text carry the same emotion e, the fusion
\* returns e, authentic, with a score of 1.0.
C3_ExactMatch ==
    (FusedPair /\ FaceUsed(args).emotion = args.text.emotion)
        => /\ ret.final_emotion = args.text.emotion
           /\ ret.is_authentic = TRUE
           /\ ReportedScore = 10

\* face (happy, 0.8) with text (happy, 0.7)
C3_Witness ==
    /\ op = "validate"
    /\ args.face = EmotionResult("happy", Pct(80), 0)
    /\ args.text = EmotionResult("happy", Pct(70), 0)
    /\ ret.final_emotion = "happy" /\ ret.is_authentic /\ ret.compatibility_score = 10

\* C4 (confidence bound): every fusion result has 0 <= final_confidence <= 0.95.
C4_ConfidenceBound ==
    (op \in {"validate", "combine"})
        => /\ QGe(ret.final_confidence, Q(0, 1))
           /\ QGe(Q(95, 100), ret.final_confidence)

(***************************************************************************)
(* Claims on the face history (Spec)                                       *)
(***************************************************************************)
Min(a, b) == IF a < b THEN a ELSE b

\* C5 (bounded history): whatever records and reads have run, the face history
\* holds at most max_history entries.
C5_BoundedHistory == Len(hist) <= max_history

\* C6 (concurrent append-while-read): once one capture-loop append and one request
\* thread's get_recent_face_emotion or get_face_emotion_consensus have both finished,
\* in whatever interleaving, the history holds the previous entries (less at most
\* the one evicted) followed by the new one, in insertion order, none lost or doubled.
C6_AppendWhileRead ==
    (/\ loop.pc = "idle" /\ req.pc = "idle"
     /\ nrec = recorded_before + 1
     /\ req.left = MaxRequests - 1)
    => /\ Len(hist) \in {recorded_before, recorded_before + 1}
       /\ \A i \in DOMAIN hist : hist[i].id = nrec - Len(hist) + i

\* C7 (buffer eviction): while the queue built by __init__ is in place (no read has
\* replaced it), the history holds the min(n, max_history) most recent of the n
\* estimates recorded, in insertion order: the 11th record evicts the first.
C7_BufferEviction ==
    (maxsize = max_history)
        => /\ Len(hist) = Min(nrec, max_history)
           /\ \A i \in DOMAIN hist : hist[i].id = nrec - Len(hist) + i

\* 11 records: 10 entries, the first one gone
C7_Witness ==
    /\ op = "record"
    /\ nrec = max_history + 1
    /\ maxsize = max_history
    /\ Len(hist) = max_history
    /\ hist[1].id = 2 /\ hist[max_history].id = max_history + 1

\* C8 (fusion does not mutate the tracker): a step of analyze_multimodal_emotion
\* leaves the history's entries, their order and its capacity limit as they were.
C8_FusionLeavesTracker ==
    [][op' = "analyze_multimodal_emotion" => (hist' = hist /\ maxsize' = maxsize)]_vars

\* the entries of the history inside the recency window, by position
InWindow == {i \in DOMAIN hist : hist[i].timestamp > now - window_seconds}

\* C9 (stale consensus): a fusion request made while the history is non-empty and
\* holds no estimate inside the recency window returns what it returns without a
\* face: the text-only result, or the no-input default when there is no text.
C9_StaleConsensus ==
    (op = "analyze_multimodal_emotion" /\ hist # <<>> /\ InWindow = {})
        => ret = combine_and_validate_emotions(None, args.text, None,
                                               face_recognizer = "advanced")

RECURSIVE SumOver(_, _)
SumOver(idx, f) ==
    IF idx = {} THEN Q(0, 1)
    ELSE LET i == CHOOSE j \in idx : TRUE IN QAdd(f[i], SumOver(idx \ {i}, f))

\* the in-window entries that carry emotion e
Carrying(e) == {i \in InWindow : hist[i].emotion = e}

\* C10 (consensus recency filtering): get_face_emotion_consensus returns None when
\* no entry is later than now - 10 s, and otherwise its sample_count, distribution,
\* emotion, stability_score and confidence are those of the in-window entries alone.
C10_RecencyFiltering ==
    (op = "get_face_emotion_consensus")
        => IF InWindow = {} THEN ret = None
           ELSE /\ ret.sample_count = Cardinality(InWindow)
                /\ ret.emotion_distribution =
                       {<<hist[i].emotion, Cardinality(Carrying(hist[i].emotion))>> : i \in InWindow}
                /\ Carrying(ret.emotion) # {}
                /\ ret.stability_score =
                       Q(Cardinality(Carrying(ret.emotion)), Cardinality(InWindow))
                /\ ret.confidence =
                       QMul(SumOver(Carrying(ret.emotion), [i \in DOMAIN hist |-> hist[i].confidence]),
                            Q(1, Cardinality(Carrying(ret.emotion))))

\* nine stale happy entries and one fresh sad one: sad, stability 1.0, one sample
C10_Witness ==
    /\ op = "get_face_emotion_consensus"
    /\ Len(hist) = 10
    /\ \A i \in 1..9 : hist[i].emotion = "happy" /\ i \notin InWindow
    /\ hist[10].emotion = "sad" /\ 10 \in InWindow
    /\ ret.emotion = "sad" /\ ret.stability_score = Q(1, 1) /\ ret.sample_count = 1

\* C11 (consensus computation): a consensus over a non-empty set of in-window
\* estimates names an emotion no other emotion outnumbers there, with the mean
\* confidence of the estimates carrying it and stability_score = its count over the
\* number of in-window estimates, a value in (0, 1].
C11_ConsensusComputation ==
    (op = "get_face_emotion_consensus" /\ InWindow # {})
        => /\ ret # None
           /\ \A e \in Emotions : Cardinality(Carrying(e)) <= Cardinality(Carrying(ret.emotion))
           /\ ret.confidence =
                  QMul(SumOver(Carrying(ret.emotion), [i \in DOMAIN hist |-> hist[i].confidence]),
                       Q(1, Cardinality(Carrying(ret.emotion))))
           /\ ret.stability_score = Q(Cardinality(Carrying(ret.emotion)), Cardinality(InWindow))
           /\ QGt(ret.stability_score, Q(0, 1)) /\ QGe(Q(1, 1), ret.stability_score)

\* ten identical happy/0.8 estimates: happy, stability 1.0, confidence 0.8
C11_Witness ==
    /\ op = "get_face_emotion_consensus"
    /\ Cardinality(InWindow) = 10
    /\ \A i \in InWindow : hist[i].emotion = "happy" /\ hist[i].confidence = Pct(80)
    /\ ret.emotion = "happy" /\ ret.stability_score = Q(1, 1) /\ ret.confidence = Pct(80)

\* a minority emotion does not win: the consensus of a mixed window
C11_MixedWindow ==
    /\ op = "get_face_emotion_consensus"
    /\ Carrying("happy") # {} /\ Cardinality(Carrying("sad")) > Cardinality(Carrying("happy"))
    /\ ret.emotion = "sad"

(***************************************************************************)
(* Claims on the tracking lifecycle (Spec)                                 *)
(***************************************************************************)
\* C12 (stop lifecycle): stop_face_tracking() called on a recognizer whose tracking
\* is active returns without raising, with the capture handle released (cap None)
\* and face_tracking_active False.
C12_StopLifecycle ==
    [][(face_tracking_active /\ op' = "stop_face_tracking")
           => (ret'.kind # "raise" /\ cap' = "none" /\ ~face_tracking_active')]_vars

\* C13 (idempotent start): start_face_tracking() called while tracking is active
\* returns True and opens no capture handle and starts no thread, and at no time
\* is there more than one capture loop thread or more than one open handle.
C13_IdempotentStart ==
    [][/\ live'.threads <= 1 /\ live'.handles <= 1
       /\ (face_tracking_active /\ op' = "start_face_tracking")
              => (ret' = Bool(TRUE) /\ live' = live /\ cap' = cap /\ face_thread' = face_thread)]_vars

\* a start call answered True after the loop has been recording: one thread still
C13_Witness ==
    /\ op = "start_face_tracking"
    /\ nrec > 0
    /\ ret = Bool(TRUE)
    /\ live = [threads |-> 1, handles |-> 1]

(***************************************************************************)
(* Claims on the single-modality branches of the fusion                    *)
(***************************************************************************)
\* C14 (text only): with a text estimate and no face estimate the final emotion is the
\* text's, and the result is authentic exactly when the text's confidence is above
\* 0.7 and its emotion is not neutral.
C14_TextOnly ==
    (op = "combine" /\ IsNone(args.face) /\ ~IsNone(args.text))
        => /\ ret.final_emotion = args.text.emotion
           /\ ret.is_authentic <=> (QGt(args.text.confidence, Pct(70))
                                    /\ args.text.emotion # "neutral")

\* a neutral text of confidence 1.0 and no face: not authentic
C14_Witness ==
    /\ op = "combine"
    /\ IsNone(args.face)
    /\ args.text = EmotionResult("neutral", Pct(100), 0)
    /\ ret.final_emotion = "neutral" /\ ~ret.is_authentic

\* C15 (face only): with a face estimate and no text estimate the final emotion and
\* confidence are the face's, and the result is authentic exactly when that
\* confidence is above 0.6.
C15_FaceOnly ==
    (op = "combine" /\ ~IsNone(args.face) /\ IsNone(args.text))
        => /\ ret.final_emotion = args.face.emotion
           /\ ret.final_confidence = args.face.confidence
           /\ ret.is_authentic <=> QGt(args.face.confidence, Pct(60))

\* face (fear, 0.9), no text: fear, 0.9, authentic
C15_Witness ==
    /\ op = "combine"
    /\ args.face = EmotionResult("fear", Pct(90), 0)
    /\ IsNone(args.text)
    /\ ret.final_emotion = "fear" /\ ret.final_confidence = Pct(90) /\ ret.is_authentic

\* the face estimate a fusion request made in this state works on
FaceOnRecord == IF face_tracking_active THEN recent_face_emotion(hist) ELSE None

\* C16 (face only with consensus): a fusion request without text, made while the
\* history holds in-window estimates, reports the face confidence multiplied by
\* the stability_score of their consensus.
C16_FaceOnlyWithConsensus ==
    (/\ op = "analyze_multimodal_emotion"
     /\ IsNone(args.text)
     /\ face_tracking_active /\ InWindow # {})
        => ret.final_confidence =
               QMul(FaceOnRecord.confidence, face_emotion_consensus(hist, now).stability_score)

\* C17 (no inputs): a fusion request with no text, made while tracking is inactive
\* or the history is empty and no frame is captured for it, returns neutral with
\* confidence 0.5, not authentic.
C17_NoInputs ==
    (/\ op = "analyze_multimodal_emotion"
     /\ IsNone(args.text)
     /\ ~face_tracking_active \/ (hist = <<>> /\ ~args.force_face_capture))
        => /\ ret.final_emotion = "neutral"
           /\ ret.final_confidence = Q(1, 2)
           /\ ret.is_authentic = FALSE

\* the default returned while tracking is active and nothing has been recorded
C17_Witness ==
    /\ op = "analyze_multimodal_emotion"
    /\ IsNone(args.text) /\ ~args.force_face_capture
    /\ face_tracking_active /\ hist = <<>>
    /\ ret.final_emotion = "neutral" /\ ret.final_confidence = Q(1, 2) /\ ~ret.is_authentic

\* C18 (estimator failure means modality absent): a fusion request whose text
\* estimator raised returns the face-only result when a face estimate is there and
\* the no-input default when none is, with no text estimate in it.
C18_TextFailureIsAbsence ==
    (op = "analyze_multimodal_emotion" /\ args.raised)
        => /\ IsNone(ret.text_emotion)
           /\ ret.explanation.tag \in {"face_only", "no_data"}

(***************************************************************************)
(* Claims on repeated and read-only requests (Spec)                        *)
(***************************************************************************)
\* C19 (idempotence of fusion): a fusion request that follows a fusion request with
\* the same inputs, nothing recorded and no time passed in between, returns the same
\* final_emotion, final_confidence, is_authentic, consistency_score and explanation.
C19_FusionIdempotent ==
    [][(op = "analyze_multimodal_emotion" /\ op' = "analyze_multimodal_emotion" /\ args' = args)
           => /\ ret'.final_emotion = ret.final_emotion
              /\ ret'.final_confidence = ret.final_confidence
              /\ ret'.is_authentic = ret.is_authentic
              /\ ret'.consistency_score = ret.consistency_score
              /\ ret'.explanation = ret.explanation]_vars

\* a face+text fusion over a window in which happy and sad tie, where the consensus
\* rests on the order of the entries; the request has replaced the queue and the
\* same request can follow
C19_Witness ==
    /\ op = "analyze_multimodal_emotion"
    /\ ~IsNone(args.text) /\ ~IsNone(ret.face_emotion)
    /\ Carrying("happy") # {}
    /\ Cardinality(Carrying("happy")) = Cardinality(Carrying("sad"))
    /\ maxsize = temp_queue_maxsize
    /\ ret.final_emotion = "happy"

\* C20 (latest): get_recent_face_emotion returns None exactly when the history is
\* empty, otherwise an entry of the history that no entry is later than, whatever
\* its age, and leaves the history's entries and their order as they were.
C20_Latest ==
    [][op' = "get_recent_face_emotion"
           => /\ hist' = hist
              /\ (ret' = None) <=> (hist = <<>>)
              /\ hist # <<>> => /\ \E i \in DOMAIN hist : hist[i] = ret'
                                /\ \A i \in DOMAIN hist : hist[i].timestamp <= ret'.timestamp]_vars

\* the latest of several entries returned although it is older than the window
C20_Witness ==
    /\ op = "get_recent_face_emotion"
    /\ Len(hist) >= 2
    /\ InWindow = {}
    /\ ret = hist[Len(hist)]

(***************************************************************************)
(* Claims on the scores and tiers of the face+text fusion (SpecFusion)     *)
(***************************************************************************)
\* C21 (reported score is the score used): the consistency_score of a face+text
\* result of _combine_and_validate_emotions is the score of the pair under the
\* policy that decided the result's final emotion and authenticity.
C21_ReportedScoreIsUsed ==
    (op = "combine" /\ BothPresent(args))
        => ret.consistency_score = PolicyScore(args)

(***************************************************************************)
(* Claims on the order of the history (Spec)                               *)
(***************************************************************************)
\* the same entries inserted in the opposite order
Reversed(items) == [i \in 1..Len(items) |-> items[Len(items) + 1 - i]]

UniqueTop ==
    \E e \in Emotions :
        \A f \in Emotions \ {e} : Cardinality(Carrying(f)) < Cardinality(Carrying(e))

C23_HighCompatibilityConfidence ==
    (op = "validate" /\ compatibility(args.face.emotion, args.text.emotion) >= 7)
        => /\ ret.final_emotion = args.face.emotion
           /\ ret.is_authentic = TRUE
           /\ ret.final_confidence = QAdd(QMul(args.face.confidence, face_weight),
                                          QMul(args.text.confidence, text_weight))

\* C24 (moderate compatibility): whenever 0.4 <= compatibility < 0.7,
\* validate_emotion_authenticity returns the emotion of the modality with the
\* higher raw confidence, final_confidence = max of the two * 0.8, authentic.
C24_ModerateCompatibility ==
    (op = "validate" /\ compatibility(args.face.emotion, args.text.emotion) >= 4
                     /\ compatibility(args.face.emotion, args.text.emotion) < 7)
        => /\ QGt(args.face.confidence, args.text.confidence)
                => ret.final_emotion = args.face.emotion
           /\ QGt(args.text.confidence, args.face.confidence)
                => ret.final_emotion = args.text.emotion
           /\ ret.final_confidence
                = QMul(QMax(args.face.confidence, args.text.confidence), Q(8, 10))
           /\ ret.is_authentic = TRUE

\* face (sad, 0.7) with text (neutral, 0.6), as in test_advanced_face_recognition
C24_Witness ==
    /\ op = "validate"
    /\ args.face = EmotionResult("sad", Pct(70), 0)
    /\ args.text = EmotionResult("neutral", Pct(60), 0)
    /\ ret.final_emotion = "sad"
    /\ ret.final_confidence = Q(56, 100)
    /\ ret.is_authentic = TRUE

\* C25 (policy variants agree): on the same face and text estimates, the fallback
\* policy of _determine_final_emotion and validate_emotion_authenticity give the
\* same is_authentic verdict.
C25_PolicyVariantsAgree ==
    (op = "combine" /\ face_recognizer = "none" /\ BothPresent(args) /\ IsNone(args.consensus))
        => ret.is_authentic
             = validate_emotion_authenticity(args.face.emotion, args.face.confidence,
                                             args.text.emotion, args.text.confidence).is_authentic

(***************************************************************************)
(* nexamodel_v2.py: NexaModelV2.predict_emotion and its fusion             *)
(***************************************************************************)
\* a modality result: probabilities in units of 1/700, accuracy in hundredths
ModalityResult(e, c, probs, method, accuracy) ==
    [emotion |-> e, confidence |-> c, all_probabilities |-> probs,
     method |-> method, model_accuracy |-> accuracy]

\* {emotion: 1.0/len(self.emotion_labels)}
equal_distribution == [e \in Emotions |-> 100]

\* a normalized distribution whose largest entry is at e
peaked_at(e, top, rest) == [l \in Emotions |-> IF l = e THEN top ELSE rest]

\* the no-face branch of predict_face_emotion: neutral, 0.6, equal probabilities
no_face_detected ==
    ModalityResult("neutral", Pct(60), equal_distribution, "no_face_detected", 76)

\* modality_weights, in hundredths, after the conflict adjustment
modality_weights(results) ==
    IF /\ {"face", "text"} \subseteq DOMAIN results
       /\ results["face"].emotion # results["text"].emotion
       /\ QGt(results["face"].confidence, Pct(50))
    THEN [face |-> 80, text |-> 15, audio |-> 5]
    ELSE [face |-> 65, text |-> 25, audio |-> 10]

\* _intelligent_multimodal_fusion(results); results maps modality names to results
intelligent_multimodal_fusion(results) ==
    LET weights == modality_weights(results)
        adjusted_weight(m) == IF m \in DOMAIN results
                              THEN weights[m] * results[m].model_accuracy ELSE 0
        total_weight == adjusted_weight("text") + adjusted_weight("face") + adjusted_weight("audio")
        part(m, e) == IF m \in DOMAIN results
                      THEN results[m].all_probabilities[e] * adjusted_weight(m) ELSE 0
        combined_probs == [e \in Emotions |-> part("text", e) + part("face", e) + part("audio", e)]
        \* max(combined_probs, key=combined_probs.get): the first maximum in label order
        best == CHOOSE i \in 1..Len(emotion_labels) :
                  /\ \A j \in 1..Len(emotion_labels) :
                        combined_probs[emotion_labels[j]] <= combined_probs[emotion_labels[i]]
                  /\ \A j \in 1..(i - 1) :
                        combined_probs[emotion_labels[j]] < combined_probs[emotion_labels[i]]
        conf(m) == IF m \in DOMAIN results
                   THEN QMul(results[m].confidence, Q(adjusted_weight(m), 1)) ELSE Q(0, 1)
        weighted_confidence == QMul(QAdd(QAdd(conf("text"), conf("face")), conf("audio")),
                                    Q(1, total_weight))
        confidence_boost == IF "face" \in DOMAIN results THEN Q(115, 100) ELSE Q(110, 100)
        boosted == QMul(weighted_confidence, confidence_boost)
    IN [emotion           |-> emotion_labels[best],
        confidence        |-> IF QGt(boosted, Q(94, 100)) THEN Q(94, 100) ELSE boosted,
        all_probabilities |-> [e \in Emotions |-> Q(combined_probs[e], 700 * total_weight)],
        method            |-> "face_priority_multimodal_fusion",
        model_accuracy    |-> 82]

\* _default_emotion_result('no_input')
default_emotion_result ==
    ModalityResult("neutral", Pct(60), equal_distribution, "no_input", 60)

\* modality_results as predict_emotion builds it; the audio result is the text
\* result again, relabelled with the audio accuracy
modality_results(face, text, audio_file) ==
    LET used == (IF IsNone(text) THEN {} ELSE {"text"})
                \cup (IF IsNone(face) THEN {} ELSE {"face"})
                \cup (IF audio_file /\ ~IsNone(text) THEN {"audio"} ELSE {})
    IN [m \in used |->
          CASE m = "text"  -> text
            [] m = "face"  -> face
            [] m = "audio" -> [text EXCEPT !.method = "audio_proxy_text", !.model_accuracy = 72]]

\* predict_emotion(face_image, audio_file, text) on what the two estimators return
predict_emotion(face, text, audio_file) ==
    LET results == modality_results(face, text, audio_file)
        combined_result ==
            IF Cardinality(DOMAIN results) > 1 THEN intelligent_multimodal_fusion(results)
            ELSE IF Cardinality(DOMAIN results) = 1
                 THEN results[CHOOSE m \in DOMAIN results : TRUE]
                 ELSE default_emotion_result
    IN [predicted_emotion |-> combined_result.emotion,
        confidence        |-> combined_result.confidence,
        all_probabilities |-> combined_result.all_probabilities,
        method            |-> combined_result.method,
        model_accuracy    |-> combined_result.model_accuracy,
        modalities_used   |-> DOMAIN results]

(***************************************************************************)
(* SpecNexa: predict_emotion applied to enumerated modality results        *)
(***************************************************************************)
\* what predict_face_emotion returns: an analysed face whose largest probability
\* is at the predicted emotion, or the no-face result
FaceResults ==
    {ModalityResult(e, Pct(c), peaked_at(e, shape[1], shape[2]), "advanced_facial_analysis", 76) :
        e \in Emotions, c \in {40, 60, 80}, shape \in {<<172, 88>>, <<400, 50>>}}
    \cup {no_face_detected}

\* what predict_text_emotion returns
TextResults ==
    {ModalityResult(e, Pct(c), peaked_at(e, 400, 50), "roberta_transformer", 87) :
        e \in Emotions, c \in {60, 90}}

(***************************************************************************)
(* face_priority_analysis.py                                               *)
(***************************************************************************)
\* compatibility_matrix of _calculate_emotion_compatibility, in tenths
compatibility_matrix ==
    [f \in Emotions |->
      CASE f = "happy"    -> [surprise |-> 7, neutral |-> 6, sad |-> 1, angry |-> 1, fear |-> 2, disgust |-> 2]
        [] f = "sad"      -> [fear |-> 6, neutral |-> 5, disgust |-> 4, angry |-> 3, happy |-> 1, surprise |-> 2]
        [] f = "angry"    -> [disgust |-> 7, fear |-> 4, sad |-> 3, neutral |-> 3, happy |-> 1, surprise |-> 2]
        [] f = "fear"     -> [sad |-> 6, surprise |-> 5, angry |-> 4, neutral |-> 4, disgust |-> 3, happy |-> 1]
        [] f = "surprise" -> [happy |-> 7, fear |-> 5, neutral |-> 5, sad |-> 2, angry |-> 2, disgust |-> 2]
        [] f = "disgust"  -> [angry |-> 7, sad |-> 4, fear |-> 3, neutral |-> 3, happy |-> 1, surprise |-> 2]
        [] f = "neutral"  -> [happy |-> 6, sad |-> 5, surprise |-> 5, fear |-> 4, angry |-> 3, disgust |-> 3]]

\* _calculate_emotion_compatibility(face_emotion, text_emotion), in tenths
calculate_emotion_compatibility(face_emotion, text_emotion) ==
    IF face_emotion = text_emotion THEN 10
    ELSE IF face_emotion \in Emotions /\ text_emotion \in DOMAIN compatibility_matrix[face_emotion]
         THEN compatibility_matrix[face_emotion][text_emotion]
         ELSE 3

\* _detect_potential_deception: the text names an emotion and the face shows another
detect_potential_deception(explicit_emotion_words, face_emotion, text_emotion) ==
    explicit_emotion_words /\ face_emotion # text_emotion

\* the branch _apply_face_priority_fusion takes
face_priority_branch(compatibility_score, face_confidence, text_confidence) ==
    IF compatibility_score > 7 THEN "compatible_multimodal"
    ELSE IF QGt(face_confidence, Pct(65)) THEN "face_priority_override"
    ELSE IF QGt(text_confidence, Pct(80)) /\ QGt(Pct(50), face_confidence)
         THEN "text_priority_weak_face"
         ELSE "blended_multimodal"

\* _apply_face_priority_fusion(face_result, text_result, original_text)
apply_face_priority_fusion(face_result, text_result, explicit_emotion_words) ==
    LET face_emotion == face_result.predicted_emotion
        face_confidence == face_result.confidence
        text_emotion == text_result.predicted_emotion
        text_confidence == text_result.confidence
        compatibility_score == calculate_emotion_compatibility(face_emotion, text_emotion)
        branch == face_priority_branch(compatibility_score, face_confidence, text_confidence)
        combined_probs == [e \in Emotions |-> face_result.all_probabilities[e] * 7
                                              + text_result.all_probabilities[e] * 3]
        best == CHOOSE i \in 1..Len(emotion_labels) :
                  /\ \A j \in 1..Len(emotion_labels) :
                        combined_probs[emotion_labels[j]] <= combined_probs[emotion_labels[i]]
                  /\ \A j \in 1..(i - 1) :
                        combined_probs[emotion_labels[j]] < combined_probs[emotion_labels[i]]
        final_emotion ==
            CASE branch = "compatible_multimodal" ->
                    IF QGt(face_confidence, text_confidence) THEN face_emotion ELSE text_emotion
              [] branch = "face_priority_override" -> face_emotion
              [] branch = "text_priority_weak_face" -> text_emotion
              [] OTHER -> emotion_labels[best]
        final_confidence ==
            CASE branch = "compatible_multimodal" ->
                    QAdd(QMul(face_confidence, Q(6, 10)), QMul(text_confidence, Q(4, 10)))
              [] branch = "face_priority_override" -> QMul(face_confidence, Q(9, 10))
              [] branch = "text_priority_weak_face" -> QMul(text_confidence, Q(8, 10))
              [] OTHER -> QAdd(QMul(face_confidence, Q(7, 10)), QMul(text_confidence, Q(3, 10)))
    IN [predicted_emotion   |-> final_emotion,
        confidence          |-> final_confidence,
        all_probabilities   |-> face_result.all_probabilities,
        analysis_method     |-> "face_priority_multimodal",
        authenticity        |-> [tag |-> branch,
                                 potential_text_deception |->
                                     detect_potential_deception(explicit_emotion_words,
                                                                face_emotion, text_emotion)],
        compatibility_score |-> compatibility_score,
        priority_given_to   |-> IF final_emotion = face_emotion THEN "face" ELSE "text"]

\* analyze_face_priority_emotion(emotion_recognizer, text, image_blob); face and text
\* are what the recognizer's two estimators return, None without the input
analyze_face_priority_emotion(face, text, explicit_emotion_words) ==
    LET face_result == predict_emotion(face, None, FALSE)
        text_result == predict_emotion(None, text, FALSE)
        plain(r, method, authenticity, confidence) ==
            [predicted_emotion   |-> r.predicted_emotion,
             confidence          |-> confidence,
             all_probabilities   |-> r.all_probabilities,
             analysis_method     |-> method,
             authenticity        |-> [tag |-> authenticity, potential_text_deception |-> FALSE],
             compatibility_score |-> 0,
             priority_given_to   |-> "none"]
    IN IF ~IsNone(face) /\ ~IsNone(text)
       THEN apply_face_priority_fusion(face_result, text_result, explicit_emotion_words)
       ELSE IF ~IsNone(face)
            THEN plain(face_result, "face_only", "verified_facial_expression", face_result.confidence)
       ELSE IF ~IsNone(text)
            THEN plain(text_result, "text_only", "unverified_text",
                       QMul(text_result.confidence, Q(7, 10)))
       ELSE plain([predicted_emotion |-> "neutral", all_probabilities |-> equal_distribution],
                  "no_input", "unknown", Pct(50))

InitNexa ==
    /\ InitTracker
    /\ face_recognizer = "none"
    /\ args \in [face : FaceResults \cup {None}, text : TextResults \cup {None},
                 audio_file : BOOLEAN, explicit_emotion_words : BOOLEAN]
    /\ ret = NoRet
    /\ op = "init"

PredictEmotion ==
    /\ ret' = predict_emotion(args.face, args.text, args.audio_file)
    /\ op' = "predict_emotion"
    /\ UNCHANGED <<face_recognizer, _continuous_recognizer, tracker, conc, args>>

AnalyzeFacePriorityEmotion ==
    /\ ret' = analyze_face_priority_emotion(args.face, args.text, args.explicit_emotion_words)
    /\ op' = "analyze_face_priority_emotion"
    /\ UNCHANGED <<face_recognizer, _continuous_recognizer, tracker, conc, args>>

NextNexa == PredictEmotion \/ AnalyzeFacePriorityEmotion

SpecNexa == InitNexa /\ [][NextNexa]_vars

\* C26 (NexaModelV2 conflict resolution): when the face and text emotions differ
\* and the face confidence is above 0.5, predict_emotion returns the face emotion,
\* and the result with an audio input is the result the same face and text give
\* without one.
C26_ConflictResolution ==
    (op = "predict_emotion" /\ ~IsNone(args.face) /\ ~IsNone(args.text))
        => /\ (args.face.emotion # args.text.emotion /\ QGt(args.face.confidence, Pct(50)))
                => ret.predicted_emotion = args.face.emotion
           /\ ret.predicted_emotion
                = predict_emotion(args.face, args.text, FALSE).predicted_emotion

\* C27 (face priority in face_priority_analysis): when face and text results carry
\* different emotions (compatibility not above 0.7), analyze_face_priority_emotion
\* returns the face emotion.
C27_FacePriority ==
    (/\ op = "analyze_face_priority_emotion"
     /\ ~IsNone(args.face) /\ ~IsNone(args.text)
     /\ calculate_emotion_compatibility(args.face.emotion, args.text.emotion) <= 7)
        => ret.predicted_emotion = args.face.emotion

\* C28 (capture loop termination): once the stop event is set, the capture loop does
\* not stay blocked on inserting into the history queue: with no read of the history
\* in progress, the only thread that can run is the loop, so a loop waiting inside
\* put() must be able to complete it (and then reach the loop test and exit).
C28_LoopTermination ==
    (stop_event /\ req.pc = "idle" /\ loop.pc = "put_wait")
        => (loop.orphaned \/ ~full(hist, maxsize))

(***************************************************************************)
(* SpecSingleton: the module-level instance and its cleanup                *)
(***************************************************************************)
\* get_continuous_recognizer(): builds the instance when the global is None
GetContinuousRecognizer ==
    /\ op' = "get_continuous_recognizer"
    /\ args' = NoArgs
    /\ IF _continuous_recognizer.current = 0 THEN
           /\ _continuous_recognizer.built < MaxInstances
           /\ _continuous_recognizer' = [built   |-> _continuous_recognizer.built + 1,
                                         current |-> _continuous_recognizer.built + 1]
           /\ ret' = [kind |-> "instance", id |-> _continuous_recognizer.built + 1]
           /\ cap' = "none"
           /\ face_tracking_active' = FALSE
           /\ face_thread' = "none"
           /\ stop_event' = FALSE
           /\ hist' = <<>>
           /\ maxsize' = max_history
           /\ last_detection_time' = 0
           /\ UNCHANGED <<live, now, scene, nrec, budget>>
       ELSE
           /\ ret' = [kind |-> "instance", id |-> _continuous_recognizer.current]
           /\ UNCHANGED <<_continuous_recognizer, tracker>>
    /\ UNCHANGED <<face_recognizer, conc>>

\* cleanup_continuous_recognizer(): cleanup() calls self.stop_face_tracking(), and the
\* global is set to None after cleanup() has returned
CleanupContinuousRecognizer ==
    /\ op' = "cleanup_continuous_recognizer"
    /\ args' = NoArgs
    /\ IF _continuous_recognizer.current = 0 THEN
           /\ ret' = NoRet
           /\ UNCHANGED <<_continuous_recognizer, tracker>>
       ELSE IF stop_face_tracking_attribute = "Event" THEN
           /\ ret' = [kind |-> "raise", error |-> "TypeError"]
           /\ UNCHANGED <<_continuous_recognizer, tracker>>
       ELSE
           /\ _continuous_recognizer' = [_continuous_recognizer EXCEPT !.current = 0]
           /\ ret' = NoRet
           /\ IF face_tracking_active THEN
                  /\ stop_event' = TRUE
                  /\ face_thread' = "none"
                  /\ cap' = "none"
                  /\ live' = [threads |-> 0, handles |-> 0]
                  /\ face_tracking_active' = FALSE
                  /\ UNCHANGED <<hist, maxsize, now, last_detection_time, scene, nrec, budget>>
              ELSE UNCHANGED tracker
    /\ UNCHANGED <<face_recognizer, conc>>

\* the module as imported: "_continuous_recognizer = None"
InitSingleton ==
    /\ cap = "none"
    /\ face_tracking_active = FALSE
    /\ face_thread = "none"
    /\ stop_event = FALSE
    /\ live = [threads |-> 0, handles |-> 0]
    /\ hist = <<>>
    /\ maxsize = max_history
    /\ now = 1
    /\ last_detection_time = 0
    /\ scene = [emotion |-> "happy", confidence |-> Pct(80)]
    /\ nrec = 0
    /\ budget = MaxSceneChanges
    /\ loop = LoopIdle
    /\ req = [ReqIdle EXCEPT !.left = MaxRequests]
    /\ _continuous_recognizer = [built |-> 0, current |-> 0]
    /\ face_recognizer = "advanced"
    /\ args = NoArgs
    /\ ret = NoRet
    /\ op = "init"

\* start_face_tracking() on the instance the global names
StartOnInstance ==
    /\ _continuous_recognizer.current # 0
    /\ \E camera \in {"opened", "unopened", "raises"} : StartFaceTracking(camera)

NextSingleton ==
    \/ GetContinuousRecognizer
    \/ CleanupContinuousRecognizer
    \/ StartOnInstance
    \/ \E s \in Scenes : Record(s)
    \/ Pause

SpecSingleton == InitSingleton /\ [][NextSingleton]_vars

\* C29 (cleanup resets the singleton): get_continuous_recognizer returns the instance
\* the global names; after cleanup_continuous_recognizer the global is None, face
\* tracking is stopped and no capture loop of the old instance is running.
C29_CleanupResetsSingleton ==
    /\ op = "get_continuous_recognizer"
         => (_continuous_recognizer.current # 0 /\ ret.id = _continuous_recognizer.current)
    /\ op = "cleanup_continuous_recognizer"
         => /\ _continuous_recognizer.current = 0
            /\ face_tracking_active = FALSE
            /\ live.threads = 0

\* C30 (start outcome matches state): start_face_tracking returns True exactly when
\* tracking is active with a loop thread started on an opened capture; when it
\* returns False tracking is not active, no loop thread was started and cap is None.
C30_StartOutcome ==
    (op = "start_face_tracking")
        => /\ ret = Bool(TRUE)
                <=> (face_tracking_active /\ face_thread = "running" /\ cap = "opened")
           /\ ret = Bool(FALSE)
                => (~face_tracking_active /\ face_thread = "none" /\ live.threads = 0
                    /\ cap = "none")

=============================================================================
